---- MODULE Spec2Model ----
(***************************************************************************)
(* Model of BiMap<L, R> (src/src/lib.rs): two hash maps, left_to_right and *)
(* right_to_left, updated together by insert / remove_left / remove_right  *)
(* / clear.  A HashMap is modelled as a set of <<key, value>> tuples with  *)
(* unique keys.  Every operation of the type is a pure operator over a     *)
(* store record `self`; the actions apply these operators to the state and *)
(* record the call, its result and the store before the call.              *)
(***************************************************************************)
EXTENDS Integers, FiniteSets, Sequences, TLC

\* ---- bounds of the model -------------------------------------------------
NumLeft == 3
NumRight == 3
\* calls followed on the two stores after clone()
MaxAfterClone == 2

RightNames == <<"a", "b", "c", "d", "e">>
Lefts == 1..NumLeft
Rights == {RightNames[i] : i \in 1..NumRight}

VARIABLES
    left_to_right,  \* HashMap<L, R>
    right_to_left,  \* HashMap<R, L>
    call,           \* the last call made on the store
    ret,            \* what the last call returned
    pre,            \* the store as it was before the last call
    panicked,       \* TRUE once a call has panicked (unwrap on None)
    scenario,       \* how many leading calls followed Scenario, -1 when off it
    doubled,        \* TRUE once an insert has met a collision on both sides
    cloned,         \* TRUE once clone() has produced the second store
    copy,           \* the store clone() returned (empty until then)
    target,         \* the store the last call acted on: "self" or "copy"
    other,          \* the store the last call did not act on, before the call
    after           \* number of calls made on either store since clone()

vars == <<left_to_right, right_to_left, call, ret, pre, panicked, scenario,
          doubled, cloned, copy, target, other, after>>

\* ---- Option<T> -------------------------------------------------------------
None == <<"None">>
Some(x) == <<"Some", x>>
Unit == <<"Unit">>

\* ---- std::collections::HashMap, as used by BiMap ---------------------------
HashMap_new == {}

HashMap_contains_key(m, k) == \E p \in m : p[1] = k

HashMap_get(m, k) ==
    IF HashMap_contains_key(m, k)
    THEN Some((CHOOSE p \in m : p[1] = k)[2])
    ELSE None

HashMap_remove(m, k) == {p \in m : p[1] # k}

HashMap_insert(m, k, v) == {p \in m : p[1] # k} \cup {<<k, v>>}

HashMap_len(m) == Cardinality(m)

HashMap_keys(m) == {p[1] : p \in m}

\* ---- BiMap -----------------------------------------------------------------
Store(l2r, r2l) == [left_to_right |-> l2r, right_to_left |-> r2l]

Self == Store(left_to_right, right_to_left)

new == Store(HashMap_new, HashMap_new)

\* the outcome of a call: the store it leaves, its result, whether it panicked
Outcome(l2r, r2l, result) ==
    [left_to_right |-> l2r, right_to_left |-> r2l, ret |-> result, panicked |-> FALSE]

Panic(l2r, r2l) ==
    [left_to_right |-> l2r, right_to_left |-> r2l, ret |-> None, panicked |-> TRUE]

get_left(self, left) == HashMap_get(self.left_to_right, left)

get_right(self, right) == HashMap_get(self.right_to_left, right)

contains_left(self, left) == HashMap_contains_key(self.left_to_right, left)

contains_right(self, right) == HashMap_contains_key(self.right_to_left, right)

len(self) == HashMap_len(self.left_to_right)

is_empty(self) == HashMap_len(self.left_to_right) = 0

left_values(self) == HashMap_keys(self.left_to_right)

right_values(self) == HashMap_keys(self.right_to_left)

iter(self) == self.left_to_right

\* slip: line 31 reads the old entry without removing it
insert_right_collision_keep_old(self, left, right, old_left) ==
    LET removed == HashMap_get(self.left_to_right, old_left)
    IN  IF removed = None
        THEN Panic(self.left_to_right, self.right_to_left)
        ELSE LET old_right == removed[2]
                 r2l1 == HashMap_remove(self.right_to_left, right)
                 l2r2 == HashMap_insert(self.left_to_right, left, right)
                 r2l2 == HashMap_insert(r2l1, right, left)
             IN  Outcome(l2r2, r2l2, Some(<<old_left, old_right>>))

\* insert, lines 30-35: `right` is owned by old_left # left
insert_right_collision(self, left, right, old_left) ==
    LET removed == HashMap_get(self.left_to_right, old_left)
        l2r1 == HashMap_remove(self.left_to_right, old_left)
    IN  IF removed = None
        THEN Panic(l2r1, self.right_to_left)   \* unwrap() on None
        ELSE LET old_right == removed[2]
                 r2l1 == HashMap_remove(self.right_to_left, right)
                 l2r2 == HashMap_insert(l2r1, left, right)
                 r2l2 == HashMap_insert(r2l1, right, left)
             IN  Outcome(l2r2, r2l2, Some(<<old_left, old_right>>))

\* slip: line 46 missing, the reverse entry for `right` is never installed
insert_left_collision_no_reverse(self, left, right, old_right) ==
    LET r2l1 == HashMap_remove(self.right_to_left, old_right)
        l2r1 == HashMap_insert(self.left_to_right, left, right)
    IN  Outcome(l2r1, r2l1, Some(<<left, old_right>>))

\* slip: line 44 missing, the reverse entry of old_right stays behind
insert_left_collision_keep_stale(self, left, right, old_right) ==
    LET l2r1 == HashMap_insert(self.left_to_right, left, right)
        r2l2 == HashMap_insert(self.right_to_left, right, left)
    IN  Outcome(l2r1, r2l2, Some(<<left, old_right>>))

\* insert, lines 43-47: `left` is stored with old_right # right
insert_left_collision(self, left, right, old_right) ==
    LET r2l1 == HashMap_remove(self.right_to_left, old_right)
        l2r1 == HashMap_insert(self.left_to_right, left, right)
        r2l2 == HashMap_insert(r2l1, right, left)
    IN  Outcome(l2r1, r2l2, Some(<<left, old_right>>))

\* slip: line 51 missing, only the forward entry is installed
insert_fresh_forward_only(self, left, right) ==
    Outcome(HashMap_insert(self.left_to_right, left, right),
            self.right_to_left,
            None)

\* insert, lines 50-52: no branch above returned
insert_fresh(self, left, right) ==
    Outcome(HashMap_insert(self.left_to_right, left, right),
            HashMap_insert(self.right_to_left, right, left),
            None)

\* slip: lines 40-42 missing, a stored pair is replaced by itself
insert_left_side_no_equal_check(self, left, right) ==
    LET found == HashMap_get(self.left_to_right, left)
    IN  IF found # None
        THEN insert_left_collision(self, left, right, found[2])
        ELSE insert_fresh(self, left, right)

\* insert, lines 39-48
insert_left_side(self, left, right) ==
    LET found == HashMap_get(self.left_to_right, left)
    IN  IF found # None
        THEN IF found[2] = right
             THEN Outcome(self.left_to_right, self.right_to_left, None)
             ELSE insert_left_collision(self, left, right, found[2])
        ELSE insert_fresh(self, left, right)

\* slip: the left-side check (line 39) runs before the right-side check
insert_left_first(self, left, right) ==
    LET found == HashMap_get(self.left_to_right, left)
        owner == HashMap_get(self.right_to_left, right)
    IN  IF found # None /\ found[2] # right
        THEN insert_left_collision(self, left, right, found[2])
        ELSE IF owner # None /\ owner[2] # left
             THEN insert_right_collision(self, left, right, owner[2])
             ELSE insert_left_side(self, left, right)

insert(self, left, right) ==
    LET owner == HashMap_get(self.right_to_left, right)
    IN  IF owner # None /\ owner[2] # left
        THEN insert_right_collision(self, left, right, owner[2])
        ELSE insert_left_side(self, left, right)

\* slip: line 68 missing, the reverse entry is read but not removed
remove_left_forward_only(self, left) ==
    LET found == HashMap_get(self.left_to_right, left)
        l2r1 == HashMap_remove(self.left_to_right, left)
    IN  IF found = None
        THEN Outcome(l2r1, self.right_to_left, None)
        ELSE LET right == found[2]
                 back == HashMap_get(self.right_to_left, right)
             IN  IF back = None
                 THEN Outcome(l2r1, self.right_to_left, None)
                 ELSE Outcome(l2r1, self.right_to_left, Some(<<back[2], right>>))

\* slip: an absent left still sweeps the reverse entries that name it
remove_left_sweep(self, left) ==
    LET found == HashMap_get(self.left_to_right, left)
        l2r1 == HashMap_remove(self.left_to_right, left)
    IN  IF found = None
        THEN Outcome(l2r1, {p \in self.right_to_left : p[2] # left}, None)
        ELSE LET right == found[2]
                 back == HashMap_get(self.right_to_left, right)
                 r2l1 == HashMap_remove(self.right_to_left, right)
             IN  IF back = None
                 THEN Outcome(l2r1, r2l1, None)
                 ELSE Outcome(l2r1, r2l1, Some(<<back[2], right>>))

remove_left(self, left) ==
    LET found == HashMap_get(self.left_to_right, left)
        l2r1 == HashMap_remove(self.left_to_right, left)
    IN  IF found = None
        THEN Outcome(l2r1, self.right_to_left, None)
        ELSE LET right == found[2]
                 back == HashMap_get(self.right_to_left, right)
                 r2l1 == HashMap_remove(self.right_to_left, right)
             IN  IF back = None
                 THEN Outcome(l2r1, r2l1, None)
                 ELSE Outcome(l2r1, r2l1, Some(<<back[2], right>>))

remove_right(self, right) ==
    LET found == HashMap_get(self.right_to_left, right)
        r2l1 == HashMap_remove(self.right_to_left, right)
    IN  IF found = None
        THEN Outcome(self.left_to_right, r2l1, None)
        ELSE LET left == found[2]
                 back == HashMap_get(self.left_to_right, left)
                 l2r1 == HashMap_remove(self.left_to_right, left)
             IN  IF back = None
                 THEN Outcome(l2r1, r2l1, None)
                 ELSE Outcome(l2r1, r2l1, Some(<<left, back[2]>>))

\* slip: line 102 missing, only the forward index is cleared
clear_forward_only(self) == Outcome(HashMap_new, self.right_to_left, Unit)

clear(self) == Outcome(HashMap_new, HashMap_new, Unit)

\* slip: the clone starts with an empty reverse index
clone_forward_only(self) == Store(self.left_to_right, HashMap_new)

\* impl Clone, lines 130-135: both maps are duplicated
clone(self) == Store(self.left_to_right, self.right_to_left)

\* ---- the documented scenario (spec section 8) -------------------------------
Scenario == << <<"insert", 1, "a">>, <<"insert", 2, "b">>, <<"insert", 1, "b">> >>

Follow(c) ==
    IF scenario >= 0 /\ scenario < Len(Scenario) /\ c[1] = "insert"
    THEN IF c = Scenario[scenario + 1] THEN scenario + 1 ELSE -1
    ELSE -1

\* ---- state machine ---------------------------------------------------------
\* insert(left, right) asked of a store where `right` is owned by another
\* left and `left` owns another right
DoubleCollision(self, left, right) ==
    /\ \E o \in Lefts : o # left /\ get_right(self, right) = Some(o)
    /\ \E r \in Rights : r # right /\ get_left(self, left) = Some(r)

Doubles(self, c) == c[1] = "insert" /\ DoubleCollision(self, c[2], c[3])

Init ==
    /\ left_to_right = new.left_to_right
    /\ right_to_left = new.right_to_left
    /\ call = <<"new">>
    /\ ret = Unit
    /\ pre = new
    /\ panicked = FALSE
    /\ scenario = 0
    /\ doubled = FALSE
    /\ cloned = FALSE
    /\ copy = new
    /\ target = "self"
    /\ other = new
    /\ after = 0

\* a call on the original store
Apply(c, out) ==
    /\ left_to_right' = out.left_to_right
    /\ right_to_left' = out.right_to_left
    /\ ret' = out.ret
    /\ panicked' = out.panicked
    /\ call' = c
    /\ pre' = Self
    /\ scenario' = Follow(c)
    /\ doubled' = (doubled \/ Doubles(Self, c))
    /\ target' = "self"
    /\ other' = copy
    /\ after' = IF cloned THEN after + 1 ELSE after
    /\ UNCHANGED <<cloned, copy>>

\* a call on the store clone() returned
ApplyCopy(c, out) ==
    /\ copy' = Store(out.left_to_right, out.right_to_left)
    /\ ret' = out.ret
    /\ panicked' = out.panicked
    /\ call' = c
    /\ pre' = copy
    /\ scenario' = -1
    /\ doubled' = (doubled \/ Doubles(copy, c))
    /\ target' = "copy"
    /\ other' = Self
    /\ after' = after + 1
    /\ UNCHANGED <<left_to_right, right_to_left, cloned>>

Insert ==
    /\ ~panicked
    /\ cloned => after < MaxAfterClone
    /\ \E left \in Lefts, right \in Rights :
          Apply(<<"insert", left, right>>, insert(Self, left, right))

RemoveLeft ==
    /\ ~panicked
    /\ cloned => after < MaxAfterClone
    /\ \E left \in Lefts : Apply(<<"remove_left", left>>, remove_left(Self, left))

RemoveRight ==
    /\ ~panicked
    /\ cloned => after < MaxAfterClone
    /\ \E right \in Rights : Apply(<<"remove_right", right>>, remove_right(Self, right))

Clear ==
    /\ ~panicked
    /\ cloned => after < MaxAfterClone
    /\ Apply(<<"clear">>, clear(Self))

Next == Insert \/ RemoveLeft \/ RemoveRight \/ Clear

Spec == Init /\ [][Next]_vars

\* ---- two stores: the original and one clone of it ---------------------------
Clone ==
    /\ ~panicked
    /\ ~cloned
    /\ cloned' = TRUE
    /\ copy' = clone(Self)
    /\ call' = <<"clone">>
    /\ ret' = Unit
    /\ pre' = Self
    /\ scenario' = -1
    /\ target' = "self"
    /\ other' = copy
    /\ UNCHANGED <<left_to_right, right_to_left, panicked, doubled, after>>

CopyInsert ==
    /\ ~panicked
    /\ cloned
    /\ after < MaxAfterClone
    /\ \E left \in Lefts, right \in Rights :
          ApplyCopy(<<"insert", left, right>>, insert(copy, left, right))

CopyRemoveLeft ==
    /\ ~panicked
    /\ cloned
    /\ after < MaxAfterClone
    /\ \E left \in Lefts : ApplyCopy(<<"remove_left", left>>, remove_left(copy, left))

CopyRemoveRight ==
    /\ ~panicked
    /\ cloned
    /\ after < MaxAfterClone
    /\ \E right \in Rights :
          ApplyCopy(<<"remove_right", right>>, remove_right(copy, right))

CopyClear ==
    /\ ~panicked
    /\ cloned
    /\ after < MaxAfterClone
    /\ ApplyCopy(<<"clear">>, clear(copy))

NextClone ==
    \/ Insert \/ RemoveLeft \/ RemoveRight \/ Clear
    \/ Clone
    \/ CopyInsert \/ CopyRemoveLeft \/ CopyRemoveRight \/ CopyClear

SpecClone == Init /\ [][NextClone]_vars

\* ---- vocabulary of the properties -------------------------------------------
Returned(op) == call[1] = op /\ ~panicked

\* the pairs either index speaks of
Pairs(self) == self.left_to_right \cup {<<p[2], p[1]>> : p \in self.right_to_left}

Inverse(self) ==
    \A l \in Lefts, r \in Rights :
        get_left(self, l) = Some(r) <=> get_right(self, r) = Some(l)

\* `right` is owned by a left other than `left`
OwnedByOther(self, left, right) ==
    \E o \in Lefts : o # left /\ get_right(self, right) = Some(o)

\* C1: in every reachable state the two indexes are exact inverses
\* (get_left(l) = r iff get_right(r) = l) and no left value and no right
\* value appears in more than one pair.
C1_ExactInverses ==
    /\ Inverse(Self)
    /\ \A p \in Pairs(Self), q \in Pairs(Self) :
          (p[1] = q[1] \/ p[2] = q[2]) => p = q

\* C2: in every reachable state both mappings hold the same number of
\* entries, so len() equals the number of values yielded by left_values(),
\* right_values() and iter().
C2_SameCardinality ==
    /\ HashMap_len(left_to_right) = HashMap_len(right_to_left)
    /\ len(Self) = Cardinality(left_values(Self))
    /\ len(Self) = Cardinality(right_values(Self))
    /\ len(Self) = Cardinality(iter(Self))

\* C3: from the empty store, insert(1,"a") returns no eviction with len 1,
\* insert(2,"b") returns no eviction with len 2, insert(1,"b") returns the
\* evicted pair (2,"b"), and then get_left(1) = "b", get_left(2) is not found
\* and get_right("a") is not found.
C3_Scenario ==
    /\ scenario = 1 => ret = None /\ len(Self) = 1
    /\ scenario = 2 => ret = None /\ len(Self) = 2
    /\ scenario = 3 =>
          /\ ret = Some(<<2, "b">>)
          /\ get_left(Self, 1) = Some("b")
          /\ get_left(Self, 2) = None
          /\ get_right(Self, "a") = None

\* C4: no call ever raises a fault: the unwrap in the right-collision branch
\* of insert never meets a missing entry.
C4_NoFault == ~panicked

\* C5: whenever insert(l, r) returns, through whichever branch, the pair is
\* established in both indexes: get_left(l) = r and get_right(r) = l.
C5_InsertEstablishes ==
    Returned("insert") =>
        /\ get_left(Self, call[2]) = Some(call[3])
        /\ get_right(Self, call[3]) = Some(call[2])

\* an insert returned an eviction from a store whose indexes had drifted apart
C5_Witness ==
    /\ Returned("insert")
    /\ ret # None
    /\ ~Inverse(pre)

\* C6 as stated: wherever (l, r1) is stored and r1 # r2, insert(l, r2) returns
\* the evicted pair (l, r1), and afterwards get_left(l) = r2, get_right(r1) is
\* not found and get_right(r2) = l.
C6_LeftCollisionOriginal ==
    \A r1 \in Rights :
        (/\ call[1] = "insert"
         /\ get_left(pre, call[2]) = Some(r1)
         /\ r1 # call[3])
        => /\ ~panicked
           /\ ret = Some(<<call[2], r1>>)
           /\ get_left(Self, call[2]) = Some(call[3])
           /\ get_right(Self, r1) = None
           /\ get_right(Self, call[3]) = Some(call[2])

\* C6 amended: wherever (l, r1) is stored, r1 # r2 and r2 is not owned by a
\* left other than l, insert(l, r2) returns the evicted pair (l, r1), and
\* afterwards get_left(l) = r2, get_right(r1) is not found and
\* get_right(r2) = l.
C6_LeftCollision ==
    \A r1 \in Rights :
        (/\ call[1] = "insert"
         /\ get_left(pre, call[2]) = Some(r1)
         /\ r1 # call[3]
         /\ ~OwnedByOther(pre, call[2], call[3]))
        => /\ ~panicked
           /\ ret = Some(<<call[2], r1>>)
           /\ get_left(Self, call[2]) = Some(call[3])
           /\ get_right(Self, r1) = None
           /\ get_right(Self, call[3]) = Some(call[2])

\* insert(l, r2) hit a stored (l, r1) while another pair stayed in place
C6_Witness ==
    /\ Returned("insert")
    /\ \E r1 \in Rights :
          /\ get_left(pre, call[2]) = Some(r1)
          /\ r1 # call[3]
          /\ ret = Some(<<call[2], r1>>)
    /\ ~OwnedByOther(pre, call[2], call[3])
    /\ len(pre) >= 2

\* C7: wherever (l1, r) is stored in both indexes and l1 # l2, insert(l2, r)
\* returns the evicted pair (l1, r), and afterwards get_right(r) = l2,
\* get_left(l1) is not found and get_left(l2) = r.
C7_RightCollision ==
    \A l1 \in Lefts :
        (/\ call[1] = "insert"
         /\ get_left(pre, l1) = Some(call[3])
         /\ get_right(pre, call[3]) = Some(l1)
         /\ l1 # call[2])
        => /\ ~panicked
           /\ ret = Some(<<l1, call[3]>>)
           /\ get_right(Self, call[3]) = Some(call[2])
           /\ get_left(Self, l1) = None
           /\ get_left(Self, call[2]) = Some(call[3])

\* insert(l2, r) evicted (l1, r) while l2 itself was stored with another right
C7_Witness ==
    /\ Returned("insert")
    /\ \E l1 \in Lefts :
          /\ l1 # call[2]
          /\ get_left(pre, l1) = Some(call[3])
          /\ get_right(pre, call[3]) = Some(l1)
          /\ ret = Some(<<l1, call[3]>>)
    /\ contains_left(pre, call[2])

\* C8: wherever get_left(l) = r, insert(l, r) returns no eviction and leaves
\* both indexes exactly as they were.
C8_InsertNoOp ==
    (/\ call[1] = "insert"
     /\ get_left(pre, call[2]) = Some(call[3]))
    => /\ ~panicked
       /\ ret = None
       /\ Self = pre
       /\ len(Self) = len(pre)

\* a stored pair was inserted again into a store holding a stale reverse entry
C8_Witness ==
    /\ Returned("insert")
    /\ get_left(pre, call[2]) = Some(call[3])
    /\ ~Inverse(pre)

\* C9: wherever contains_left(l) and contains_right(r) are both false,
\* insert(l, r) returns no eviction, increases len() by exactly 1, and
\* afterwards get_left(l) = r and get_right(r) = l.
C9_InsertFresh ==
    (/\ call[1] = "insert"
     /\ ~contains_left(pre, call[2])
     /\ ~contains_right(pre, call[3]))
    => /\ ~panicked
       /\ ret = None
       /\ len(Self) = len(pre) + 1
       /\ get_left(Self, call[2]) = Some(call[3])
       /\ get_right(Self, call[3]) = Some(call[2])

\* a pair of two new values was inserted into a store that was not empty
C9_Witness ==
    /\ Returned("insert")
    /\ ~contains_left(pre, call[2])
    /\ ~contains_right(pre, call[3])
    /\ len(pre) >= 1

\* C10: for every pair (l, r) yielded by iter(), remove_left(l) returns (l, r)
\* and remove_right(r) returns (l, r); after either call contains_left(l) and
\* contains_right(r) are false, len() has decreased by exactly 1, and
\* repeating the same removal returns not found.
C10_RemoveRoundTrip ==
    \A p \in iter(pre) :
        /\ (call[1] = "remove_left" /\ call[2] = p[1]) =>
              /\ ~panicked
              /\ ret = Some(p)
              /\ ~contains_left(Self, p[1])
              /\ ~contains_right(Self, p[2])
              /\ len(Self) = len(pre) - 1
              /\ remove_left(Self, p[1]).ret = None
        /\ (call[1] = "remove_right" /\ call[2] = p[2]) =>
              /\ ~panicked
              /\ ret = Some(p)
              /\ ~contains_left(Self, p[1])
              /\ ~contains_right(Self, p[2])
              /\ len(Self) = len(pre) - 1
              /\ remove_right(Self, p[2]).ret = None

\* a stored pair was removed by its right value from a store that also held
\* a stale reverse entry
C10_Witness ==
    /\ Returned("remove_right")
    /\ \E p \in iter(pre) : call[2] = p[2] /\ ret = Some(p)
    /\ ~Inverse(pre)

\* C11: remove_left(l) with contains_left(l) false, and remove_right(r) with
\* contains_right(r) false, return not found and leave both indexes unchanged.
C11_RemoveAbsent ==
    /\ (call[1] = "remove_left" /\ ~contains_left(pre, call[2])) =>
          ~panicked /\ ret = None /\ Self = pre
    /\ (call[1] = "remove_right" /\ ~contains_right(pre, call[2])) =>
          ~panicked /\ ret = None /\ Self = pre

\* an absent left value was removed while a reverse entry still named it
C11_Witness ==
    /\ Returned("remove_left")
    /\ ~contains_left(pre, call[2])
    /\ \E r \in Rights : get_right(pre, r) = Some(call[2])

\* C12: after clear() in any reachable state, len() = 0, is_empty() is true,
\* and get_left, get_right, contains_left and contains_right report absence
\* for every value: both indexes are empty as in a new store.
C12_Clear ==
    call[1] = "clear" =>
        /\ ~panicked
        /\ len(Self) = 0
        /\ is_empty(Self)
        /\ \A l \in Lefts : get_left(Self, l) = None /\ ~contains_left(Self, l)
        /\ \A r \in Rights : get_right(Self, r) = None /\ ~contains_right(Self, r)
        /\ Self = new

\* clear() was called on a store whose indexes had drifted apart
C12_Witness ==
    /\ Returned("clear")
    /\ ~Inverse(pre)
    /\ HashMap_len(pre.right_to_left) > len(pre)

\* C14: where the indexes are exact inverses and both (old_left, right) and
\* (left, old_right) are stored with old_left # left and old_right # right,
\* insert(left, right) returns (old_left, right) and not (left, old_right),
\* removes old_left from the forward index, and leaves the reverse entry
\* old_right -> left untouched.
C14_DoubleCollision ==
    \A old_left \in Lefts, old_right \in Rights :
        (/\ call[1] = "insert"
         /\ Inverse(pre)
         /\ old_left # call[2]
         /\ old_right # call[3]
         /\ get_left(pre, old_left) = Some(call[3])
         /\ get_left(pre, call[2]) = Some(old_right))
        => /\ ~panicked
           /\ ret = Some(<<old_left, call[3]>>)
           /\ ret # Some(<<call[2], old_right>>)
           /\ ~contains_left(Self, old_left)
           /\ get_right(Self, old_right) = Some(call[2])

\* an insert met a collision on both sides of a consistent store
C14_Witness ==
    /\ Returned("insert")
    /\ Inverse(pre)
    /\ OwnedByOther(pre, call[2], call[3])
    /\ \E old_right \in Rights :
          old_right # call[3] /\ get_left(pre, call[2]) = Some(old_right)
    /\ ret # None

\* C15: whenever remove_left or remove_right returns not found, both indexes
\* are left exactly as they were before the call.
C15_NotFoundUnchanged ==
    (call[1] \in {"remove_left", "remove_right"} /\ ~panicked /\ ret = None)
        => Self = pre

\* C16: remove_left(l) returning (l', r') implies l' = l, remove_right(r)
\* returning (l', r') implies r' = r, and afterwards contains_left(l') and
\* contains_right(r') are both false.
C16_RemovedPair ==
    (call[1] \in {"remove_left", "remove_right"} /\ ~panicked /\ ret # None)
        => /\ call[1] = "remove_left" => ret[2][1] = call[2]
           /\ call[1] = "remove_right" => ret[2][2] = call[2]
           /\ ~contains_left(Self, ret[2][1])
           /\ ~contains_right(Self, ret[2][2])

\* C17: whenever insert(l, r) returns an evicted pair (l', r'), either r' = r
\* and l' # l, or l' = l and r' # r.
C17_EvictedConflicts ==
    (Returned("insert") /\ ret # None)
        => \/ ret[2][2] = call[3] /\ ret[2][1] # call[2]
           \/ ret[2][1] = call[2] /\ ret[2][2] # call[3]

\* C18: every forward entry is backed by its reverse entry (get_left(l) = r
\* implies get_right(r) = l), hence no two left values map to the same right
\* value and len() never exceeds the number of reverse entries.
C18_ForwardBacked ==
    /\ \A l \in Lefts, r \in Rights :
          get_left(Self, l) = Some(r) => get_right(Self, r) = Some(l)
    /\ \A p \in iter(Self), q \in iter(Self) : p[2] = q[2] => p = q
    /\ len(Self) <= HashMap_len(right_to_left)

\* a store with stored pairs and a reverse entry no forward entry backs
C18_Witness ==
    /\ ~panicked
    /\ len(Self) >= 2
    /\ ~Inverse(Self)

SameLookups(a, b) ==
    /\ len(a) = len(b)
    /\ iter(a) = iter(b)
    /\ \A l \in Lefts : get_left(a, l) = get_left(b, l)
    /\ \A r \in Rights : get_right(a, r) = get_right(b, r)

\* C13: after clone() the copy holds the same forward and reverse entries as
\* the original, and any later insert / remove_left / remove_right / clear
\* applied to one of the two stores leaves the other store's len(), entries
\* and lookup results unchanged.
C13_CloneIndependent ==
    /\ call[1] = "clone" =>
          /\ copy.left_to_right = left_to_right
          /\ copy.right_to_left = right_to_left
          /\ Self = pre
    /\ (cloned /\ call[1] # "clone" /\ target = "self") =>
          copy = other /\ SameLookups(copy, other)
    /\ (cloned /\ target = "copy") =>
          Self = other /\ SameLookups(Self, other)

\* a colliding insert on the clone of a store with a stale reverse entry made
\* the clone differ from the original
C13_Witness ==
    /\ cloned
    /\ ~panicked
    /\ target = "copy"
    /\ call[1] = "insert"
    /\ ret # None
    /\ copy # Self
    /\ HashMap_len(right_to_left) > len(Self)

\* C19: as long as no insert(l, r) has been issued while r was owned by a
\* different left and l owned a different right, the two indexes are exact
\* inverses of each other with equal entry counts.
C19_OnlyDoubleCollisionBreaks ==
    ~doubled =>
        /\ ~panicked
        /\ Inverse(Self)
        /\ HashMap_len(left_to_right) = HashMap_len(right_to_left)

\* with no double collision so far, an insert evicted the pair of another
\* left on a right-side collision while a second pair stayed in place
C19_Witness ==
    /\ ~doubled
    /\ Returned("insert")
    /\ ret # None
    /\ ret[2][1] # call[2]
    /\ len(Self) >= 2
====
